---- MODULE Spec2Model ----
(***************************************************************************)
(* A model of two components of GRR:                                       *)
(*                                                                         *)
(*  - grr_response_client/unprivileged/windows/process.py: class Process,  *)
(*    which creates two inheritable pipes, builds a handle whitelist,      *)
(*    spawns a child with CreateProcessW and later stops it;               *)
(*  - grr_response_server/output_plugins/json_plugin.py: the instant       *)
(*    output plugin that streams exported values as JSON arrays into a     *)
(*    zip archive and writes a MANIFEST with per-type counts.              *)
(*                                                                         *)
(* The operating system (handle table, pipes, process creation, wait) and  *)
(* the pywin32 wrappers are modelled by their documented behaviour; every  *)
(* native call the parent makes is appended to the log `calls`.            *)
(***************************************************************************)
EXTENDS Integers, Sequences, FiniteSets, TLC

\* ------------------------------------------------------------------ bounds
\* Size of the parent's handle table (handle values are 1..MaxHandle).
MaxHandle == 8
\* Handles the parent holds before the launch are among 1..MaxAmbient.
MaxAmbient == 2
\* Longest list of extra handles a caller passes.
MaxExtra == 2
\* Bytes the platform reports for an attribute list with one attribute.
AttrListBytes == 2

\* Values per call: 0..MaxSmall, and k * ROW_BATCH + d for k in 1..MaxBatches
\* and d in 0..1 (the last batch one short of full, and exactly full).
MaxSmall == 2
MaxBatches == 2

\* Handles other code of the parent opens on values Stop has closed.
MaxReuse == 2

\* ------------------------------------------------------------- basic sets
\* HANDLE() is the null handle.
NoHandle == 0
Handles == 1..MaxHandle
Ambient == 1..MaxAmbient
\* Callers of Stop (threads of the parent).
Threads == {1, 2}

Min(S) == CHOOSE x \in S : \A y \in S : x <= y
Range(s) == {s[i] : i \in 1..Len(s)}
SeqsUpTo(S, n) == UNION {[1..k -> S] : k \in 0..n}

NoError == [kind |-> "none", msg |-> ""]
\* class Error(Exception)
Error(m) == [kind |-> "Error", msg |-> m]
\* pywin32 raises pywintypes.error when a wrapped call reports failure.
PyWinError(m) == [kind |-> "pywintypes.error", msg |-> m]

Call(op, args, ok, by) == [op |-> op, args |-> args, ok |-> ok, by |-> by]

VARIABLES
  pc,             \* position of Process.__init__
  open,           \* handles open in the parent
  inheritable,    \* open handles of the parent flagged inheritable
  extra_handles,  \* the constructor's argument: [given, list]
  remote_input, local_input, local_output, remote_output,
  self_input, self_output, self_handle,
  size,           \* SIZE_T size
  attr_list,      \* the attribute list buffer: [cap, state, handles]
  handle_list,    \* the HANDLE array passed to UpdateProcThreadAttribute
  command_line,   \* what make_command_line returned: its two arguments
  factory_calls,  \* the argument pairs make_command_line was called with
  pi,             \* PROCESS_INFORMATION: [hProcess, hThread]
  child,          \* "none", "running", "terminating", "exited"
  child_handles,  \* the handles the child inherited
  raised,         \* the exception that escaped __init__
  calls,          \* log of the parent's native calls
  spc,            \* position of each caller's Stop
  sraised,        \* the exception that escaped each caller's Stop
  wait_saw_exit   \* per caller: WaitForSingleObject returned because the child exited

hvars == <<open, inheritable>>
pipevars == <<remote_input, local_input, local_output, remote_output>>
selfvars == <<self_input, self_output, self_handle>>
attrvars == <<size, attr_list, handle_list>>
cmdvars == <<command_line, factory_calls>>
childvars == <<child, child_handles>>
stopvars == <<spc, sraised, wait_saw_exit>>
procvars == <<pc, hvars, extra_handles, pipevars, selfvars, attrvars, cmdvars,
              pi, childvars, raised, calls, stopvars>>
launchvars == <<pc, extra_handles, pipevars, selfvars, attrvars, cmdvars, pi, raised>>

\* The output plugin's state.
VARIABLES
  jpc,            \* position of the plugin: Start, a value generator, Finish
  export_counts,  \* self.export_counts: original type -> exported type -> count
  archive,        \* what the archive generator was asked to write, in order
  cur,            \* the running ProcessSingleTypeExportedValues call
  manifest_bytes, \* Finish's serialized manifest
  given           \* the calls made so far: (original, exported) -> number of values

jsonvars == <<jpc, export_counts, archive, cur, manifest_bytes, given>>

vars == <<procvars, jsonvars>>

\* ---------------------------------------------------------- the platform
Free == Handles \ open

\* The two handles a successful allocation of a pair returns: the lowest free
\* values, in either order.
PairAlloc ==
  IF Cardinality(Free) < 2 THEN {}
  ELSE LET a == Min(Free)
           b == Min(Free \ {a})
       IN  {<<a, b>>, <<b, a>>}

NoAttrList == [cap |-> 0, state |-> "none", handles |-> <<>>]

\* What the child can inherit when CreateProcessW succeeds with
\* bInheritHandles = True and the given attribute list.  A populated list is an
\* exhaustive whitelist.  A list that DeleteProcThreadAttributeList has already
\* torn down is used after its deletion: the platform then either still finds
\* the whitelist in the buffer or finds no attribute and falls back to
\* inheriting every inheritable handle of the parent.
InheritOutcomes(al) ==
  IF al.state = "populated" THEN {Range(al.handles)}
  ELSE IF al.state = "deleted" THEN {Range(al.handles), inheritable}
  ELSE {inheritable}

\* A whitelist is accepted only if each of its handles is open and inheritable.
WhitelistValid(hs) == hs \subseteq inheritable

\* ------------------------------------------------------- Process.__init__
ExtrasOrEmpty(eh) == IF eh.given THEN eh.list ELSE <<>>

HandleList_OutputFirst(ri, ro, extras) == <<ro, ri>> \o extras

\* handle_list = (HANDLE * n)(remote_input, remote_output, *extra_handles)
HandleList(ri, ro, extras) == <<ri, ro>> \o extras

Fail(e) ==
  /\ raised' = e
  /\ pc' = "failed"

\* CreatePipeWrapper: CreatePipe either stores two new inheritable handles
\* (read end, write end) or reports failure and allocates nothing.
CreatePipeResults ==
  {[ok |-> TRUE, r |-> p[1], w |-> p[2]] : p \in PairAlloc}
    \cup {[ok |-> FALSE, r |-> NoHandle, w |-> NoHandle]}

PipeRaises_Never(res) == FALSE

\* if not res: raise Error("CreatePipe failed.")
PipeRaises(res) == ~res.ok

PipeHandles(res) == IF res.ok THEN {res.r, res.w} ELSE {}

PipeCall(res) ==
  Call("CreatePipe", IF res.ok THEN <<res.r, res.w>> ELSE <<>>, res.ok, 0)

\* remote_input, local_input = CreatePipeWrapper()
CreateInputPipe ==
  /\ pc = "create_input_pipe"
  /\ \E res \in CreatePipeResults :
       /\ calls' = Append(calls, PipeCall(res))
       /\ open' = open \cup PipeHandles(res)
       /\ inheritable' = inheritable \cup PipeHandles(res)
       /\ IF PipeRaises(res)
          THEN /\ Fail(Error("CreatePipe failed."))
               /\ UNCHANGED <<remote_input, local_input>>
          ELSE /\ remote_input' = res.r
               /\ local_input' = res.w
               /\ pc' = "create_output_pipe"
               /\ UNCHANGED raised
  /\ UNCHANGED <<extra_handles, local_output, remote_output, selfvars, attrvars,
                 cmdvars, pi, childvars, stopvars, jsonvars>>

\* local_output, remote_output = CreatePipeWrapper()
CreateOutputPipe ==
  /\ pc = "create_output_pipe"
  /\ \E res \in CreatePipeResults :
       /\ calls' = Append(calls, PipeCall(res))
       /\ open' = open \cup PipeHandles(res)
       /\ inheritable' = inheritable \cup PipeHandles(res)
       /\ IF PipeRaises(res)
          THEN /\ Fail(Error("CreatePipe failed."))
               /\ UNCHANGED <<local_output, remote_output>>
          ELSE /\ local_output' = res.r
               /\ remote_output' = res.w
               /\ pc' = "set_fields"
               /\ UNCHANGED raised
  /\ UNCHANGED <<extra_handles, remote_input, local_input, selfvars, attrvars,
                 cmdvars, pi, childvars, stopvars, jsonvars>>

SetFields ==
  /\ pc = "set_fields"
  /\ self_input' = local_input
  /\ self_output' = local_output
  /\ pc' = "size_query"
  /\ UNCHANGED <<hvars, extra_handles, pipevars, self_handle, attrvars, cmdvars,
                 pi, childvars, raised, calls, stopvars, jsonvars>>

\* InitializeProcThreadAttributeList(None, 1, 0, &size): the result is ignored;
\* the call stores the required size, or leaves size at 0 when it fails for
\* another reason than the missing buffer.
SizeQuery ==
  /\ pc = "size_query"
  /\ \E s \in {AttrListBytes, 0} :
       /\ size' = s
       /\ calls' = Append(calls, Call("InitializeProcThreadAttributeList:size",
                                      <<>>, s # 0, 0))
  /\ pc' = "alloc_buffer"
  /\ UNCHANGED <<hvars, extra_handles, pipevars, selfvars, attr_list, handle_list,
                 cmdvars, pi, childvars, raised, stopvars, jsonvars>>

AllocBuffer ==
  /\ pc = "alloc_buffer"
  /\ attr_list' = [cap |-> size, state |-> "raw", handles |-> <<>>]
  /\ pc' = "init_attr_list"
  /\ UNCHANGED <<hvars, extra_handles, pipevars, selfvars, size, handle_list,
                 cmdvars, pi, childvars, raised, calls, stopvars, jsonvars>>

\* An initialization that accepts a buffer of any size.
BufferFits_Any(al) == TRUE

\* InitializeProcThreadAttributeList(attr_list, 1, 0, byref(size)) succeeds
\* only on a buffer that holds a list of one attribute.
BufferFits(al) == al.cap >= AttrListBytes

InitAttrList ==
  /\ pc = "init_attr_list"
  /\ \/ /\ BufferFits(attr_list)
        /\ attr_list' = [attr_list EXCEPT !.state = "initialized"]
        /\ calls' = Append(calls, Call("InitializeProcThreadAttributeList",
                                       <<>>, TRUE, 0))
        /\ pc' = "build_handle_list"
        /\ UNCHANGED raised
     \/ /\ calls' = Append(calls, Call("InitializeProcThreadAttributeList",
                                       <<>>, FALSE, 0))
        /\ Fail(Error("InitializeProcThreadAttributeList failed."))
        /\ UNCHANGED attr_list
  /\ UNCHANGED <<hvars, extra_handles, pipevars, selfvars, size, handle_list,
                 cmdvars, pi, childvars, stopvars, jsonvars>>

BuildHandleList ==
  /\ pc = "build_handle_list"
  /\ handle_list' = HandleList(remote_input, remote_output,
                               ExtrasOrEmpty(extra_handles))
  /\ pc' = "update_attr"
  /\ UNCHANGED <<hvars, extra_handles, pipevars, selfvars, size, attr_list,
                 cmdvars, pi, childvars, raised, calls, stopvars, jsonvars>>

UpdateAttr ==
  /\ pc = "update_attr"
  /\ \/ /\ attr_list' = [attr_list EXCEPT !.state = "populated",
                                          !.handles = handle_list]
        /\ calls' = Append(calls, Call("UpdateProcThreadAttribute",
                                       handle_list, TRUE, 0))
        /\ pc' = "delete_attr_list"
        /\ UNCHANGED raised
     \/ /\ calls' = Append(calls, Call("UpdateProcThreadAttribute",
                                       handle_list, FALSE, 0))
        /\ Fail(Error("UpdateProcThreadAttribute failed."))
        /\ UNCHANGED attr_list
  /\ UNCHANGED <<hvars, extra_handles, pipevars, selfvars, size, handle_list,
                 cmdvars, pi, childvars, stopvars, jsonvars>>

DeleteAttrList ==
  /\ pc = "delete_attr_list"
  /\ attr_list' = [attr_list EXCEPT !.state = "deleted"]
  /\ calls' = Append(calls, Call("DeleteProcThreadAttributeList", <<>>, TRUE, 0))
  /\ pc' = "make_command_line"
  /\ UNCHANGED <<hvars, extra_handles, pipevars, selfvars, size, handle_list,
                 cmdvars, pi, childvars, raised, stopvars, jsonvars>>

FactoryArgs_Swapped == <<remote_output, remote_input>>

\* The arguments of make_command_line(remote_input.value, remote_output.value).
FactoryArgs == <<remote_input, remote_output>>

MakeCommandLine ==
  /\ pc = "make_command_line"
  /\ factory_calls' = Append(factory_calls,
                             [args |-> FactoryArgs,
                              open_then |-> open,
                              whitelist |-> attr_list.handles])
  /\ command_line' = FactoryArgs
  /\ pc' = "create_process"
  /\ UNCHANGED <<hvars, extra_handles, pipevars, selfvars, attrvars, pi,
                 childvars, raised, calls, stopvars, jsonvars>>

\* A launch that released its pipes when process creation fails.
CreateProcessFailed_Cleanup ==
  /\ calls' = Append(calls, Call("CreateProcessW", <<>>, FALSE, 0))
           \o <<Call("CloseHandle", <<remote_input>>, TRUE, 0),
                Call("CloseHandle", <<local_input>>, TRUE, 0),
                Call("CloseHandle", <<local_output>>, TRUE, 0),
                Call("CloseHandle", <<remote_output>>, TRUE, 0)>>
  /\ open' = open \ {remote_input, local_input, local_output, remote_output}
  /\ inheritable' = inheritable
                      \ {remote_input, local_input, local_output, remote_output}
  /\ Fail(Error("CreateProcessW failed."))
  /\ UNCHANGED <<pi, childvars>>

\* if not res: raise Error("CreateProcessW failed.")
CreateProcessFailed ==
  /\ calls' = Append(calls, Call("CreateProcessW", <<>>, FALSE, 0))
  /\ Fail(Error("CreateProcessW failed."))
  /\ UNCHANGED <<hvars, pi, childvars>>

CreateProcess ==
  /\ pc = "create_process"
  /\ \/ \E p \in PairAlloc, inh \in InheritOutcomes(attr_list) :
          /\ inh = Range(attr_list.handles) => WhitelistValid(inh)
          /\ pi' = [hProcess |-> p[1], hThread |-> p[2]]
          /\ open' = open \cup {p[1], p[2]}
          /\ UNCHANGED inheritable
          /\ child' = "running"
          /\ child_handles' = inh
          /\ calls' = Append(calls, Call("CreateProcessW", p, TRUE, 0))
          /\ pc' = "close_remote_input"
          /\ UNCHANGED raised
     \/ CreateProcessFailed
  /\ UNCHANGED <<extra_handles, pipevars, selfvars, attrvars, cmdvars, stopvars, jsonvars>>

\* win32api.CloseHandle(h) by caller `by`: closes an open handle.
CloseOpen(h, by) ==
  /\ h \in open
  /\ open' = open \ {h}
  /\ inheritable' = inheritable \ {h}
  /\ calls' = Append(calls, Call("CloseHandle", <<h>>, TRUE, by))

CloseRemoteInput_WrongEnd ==
  /\ pc = "close_remote_input"
  /\ CloseOpen(local_input, 0)
  /\ pc' = "close_remote_output"
  /\ UNCHANGED <<extra_handles, pipevars, selfvars, attrvars, cmdvars, pi,
                 childvars, raised, stopvars, jsonvars>>

CloseRemoteInput ==
  /\ pc = "close_remote_input"
  /\ CloseOpen(remote_input, 0)
  /\ pc' = "close_remote_output"
  /\ UNCHANGED <<extra_handles, pipevars, selfvars, attrvars, cmdvars, pi,
                 childvars, raised, stopvars, jsonvars>>

CloseRemoteOutput ==
  /\ pc = "close_remote_output"
  /\ CloseOpen(remote_output, 0)
  /\ pc' = "set_handle"
  /\ UNCHANGED <<extra_handles, pipevars, selfvars, attrvars, cmdvars, pi,
                 childvars, raised, stopvars, jsonvars>>

SetHandle ==
  /\ pc = "set_handle"
  /\ self_handle' = pi.hProcess
  /\ pc' = "close_thread"
  /\ UNCHANGED <<hvars, extra_handles, pipevars, self_input, self_output,
                 attrvars, cmdvars, pi, childvars, raised, calls, stopvars, jsonvars>>

\* The last step of the constructor closing the process handle instead of
\* the thread handle.
CloseThread_ProcessHandle ==
  /\ pc = "close_thread"
  /\ CloseOpen(pi.hProcess, 0)
  /\ pc' = "constructed"
  /\ UNCHANGED <<extra_handles, pipevars, selfvars, attrvars, cmdvars, pi,
                 childvars, raised, stopvars, jsonvars>>

CloseThread ==
  /\ pc = "close_thread"
  /\ CloseOpen(pi.hThread, 0)
  /\ pc' = "constructed"
  /\ UNCHANGED <<extra_handles, pipevars, selfvars, attrvars, cmdvars, pi,
                 childvars, raised, stopvars, jsonvars>>

Launch ==
  \/ CreateInputPipe
  \/ CreateOutputPipe
  \/ SetFields
  \/ SizeQuery
  \/ AllocBuffer
  \/ InitAttrList
  \/ BuildHandleList
  \/ UpdateAttr
  \/ DeleteAttrList
  \/ MakeCommandLine
  \/ CreateProcess
  \/ CloseRemoteInput
  \/ CloseRemoteOutput
  \/ SetHandle
  \/ CloseThread

\* Stop guarded by a stopped state: a second call on a stopped instance does
\* nothing.
StopCall_Guarded(t) ==
  /\ pc = "constructed"
  /\ spc[t] = "idle"
  /\ \A u \in Threads : spc[u] # "returned"
  /\ spc' = [spc EXCEPT ![t] = "close_input"]
  /\ UNCHANGED <<launchvars, hvars, childvars, calls, sraised, wait_saw_exit,
                 jsonvars>>

\* Stop under a lock of the instance: entered only while no other caller is
\* inside it.
StopCall_Locked(t) ==
  /\ pc = "constructed"
  /\ spc[t] = "idle"
  /\ \A u \in Threads \ {t} : spc[u] \in {"idle", "returned", "raised"}
  /\ spc' = [spc EXCEPT ![t] = "close_input"]
  /\ UNCHANGED <<launchvars, hvars, childvars, calls, sraised, wait_saw_exit,
                 jsonvars>>

\* ----------------------------------------------------------- Process.Stop
StopCall(t) ==
  /\ pc = "constructed"
  /\ spc[t] = "idle"
  /\ spc' = [spc EXCEPT ![t] = "close_input"]
  /\ UNCHANGED <<launchvars, hvars, childvars, calls, sraised, wait_saw_exit,
                 jsonvars>>

StopCloseInput(t) ==
  /\ spc[t] = "close_input"
  /\ CloseOpen(self_input, t)
  /\ spc' = [spc EXCEPT ![t] = "close_output"]
  /\ UNCHANGED <<launchvars, childvars, sraised, wait_saw_exit, jsonvars>>

StopCloseOutput(t) ==
  /\ spc[t] = "close_output"
  /\ CloseOpen(self_output, t)
  /\ spc' = [spc EXCEPT ![t] = "terminate"]
  /\ UNCHANGED <<launchvars, childvars, sraised, wait_saw_exit, jsonvars>>

\* win32process.TerminateProcess(self._handle, -1) on a running child: the
\* termination is requested and the call returns; the child exits later.
StopTerminate(t) ==
  /\ spc[t] = "terminate"
  /\ self_handle \in open
  /\ child = "running"
  /\ child' = "terminating"
  /\ calls' = Append(calls, Call("TerminateProcess", <<self_handle>>, TRUE, t))
  /\ spc' = [spc EXCEPT ![t] = "wait"]
  /\ UNCHANGED <<launchvars, hvars, child_handles, sraised, wait_saw_exit,
                 jsonvars>>

\* TerminateProcess on a child that has already exited is rejected by the
\* platform (access denied); the pywin32 wrapper raises its own error, which
\* Stop does not catch.
StopTerminateRejected(t) ==
  /\ spc[t] = "terminate"
  /\ self_handle \in open
  /\ child # "running"
  /\ calls' = Append(calls, Call("TerminateProcess", <<self_handle>>, FALSE, t))
  /\ sraised' = [sraised EXCEPT ![t] = PyWinError("TerminateProcess")]
  /\ spc' = [spc EXCEPT ![t] = "raised"]
  /\ UNCHANGED <<launchvars, hvars, childvars, wait_saw_exit, jsonvars>>

\* A wait that returns without the child having exited (a zero timeout).
WaitReturns_NoBlock == TRUE

\* WaitForSingleObject(self._handle, INFINITE) returns WAIT_OBJECT_0 once the
\* child has exited, and blocks until then.
WaitReturns == child = "exited"

StopWait(t) ==
  /\ spc[t] = "wait"
  /\ self_handle \in open
  /\ WaitReturns
  /\ wait_saw_exit' = [wait_saw_exit EXCEPT ![t] = (child = "exited")]
  /\ calls' = Append(calls, Call("WaitForSingleObject", <<self_handle>>, TRUE, t))
  /\ spc' = [spc EXCEPT ![t] = "close_handle"]
  /\ UNCHANGED <<launchvars, hvars, childvars, sraised, jsonvars>>

\* The wait fails at the platform level.  Stop raises Error when the call
\* returns WAIT_FAILED; the pywin32 wrapper may instead raise its own error for
\* a failed wait, and then the comparison in Stop is never reached.
WaitFailureErrors ==
  {Error("WaitForSingleObject failed."), PyWinError("WaitForSingleObject")}

\* A failed wait that releases the process handle before raising.
StopWaitFailed_Release(t) ==
  /\ spc[t] = "wait"
  /\ \E e \in WaitFailureErrors : sraised' = [sraised EXCEPT ![t] = e]
  /\ calls' = Append(calls, Call("WaitForSingleObject", <<self_handle>>, FALSE, t))
  /\ spc' = [spc EXCEPT ![t] = "raised"]
  /\ open' = open \ {self_handle}
  /\ UNCHANGED <<launchvars, inheritable, childvars, wait_saw_exit, jsonvars>>

StopWaitFailed(t) ==
  /\ spc[t] = "wait"
  /\ \E e \in WaitFailureErrors : sraised' = [sraised EXCEPT ![t] = e]
  /\ calls' = Append(calls, Call("WaitForSingleObject", <<self_handle>>, FALSE, t))
  /\ spc' = [spc EXCEPT ![t] = "raised"]
  /\ UNCHANGED <<launchvars, hvars, childvars, wait_saw_exit, jsonvars>>

StopCloseHandle(t) ==
  /\ spc[t] = "close_handle"
  /\ CloseOpen(self_handle, t)
  /\ spc' = [spc EXCEPT ![t] = "returned"]
  /\ UNCHANGED <<launchvars, childvars, sraised, wait_saw_exit, jsonvars>>

Stop(t) ==
  \/ StopCall(t)
  \/ StopCloseInput(t)
  \/ StopCloseOutput(t)
  \/ StopTerminate(t)
  \/ StopTerminateRejected(t)
  \/ StopWait(t)
  \/ StopWaitFailed(t)
  \/ StopCloseHandle(t)

\* ------------------------------------------- Stop on handles already closed
\* Stop keeps self.input, self.output and self._handle after closing them and
\* has no record of having run: a later or concurrent Stop passes the same
\* handle values to the platform again.

\* A Stop has closed the handle value h.
ClosedByStop(h) ==
  \E i \in 1..Len(calls) :
    /\ calls[i].op = "CloseHandle" /\ calls[i].ok
    /\ calls[i].args = <<h>> /\ calls[i].by \in Threads

\* The handles other code of the parent has opened since the launch.
Reopened == {i \in 1..Len(calls) : calls[i].op = "Open"}

\* Other code running in the parent process opens a handle and the platform
\* hands out a value that Stop has closed: the stale value held by the
\* instance now names a foreign handle.
OtherOpens ==
  /\ pc = "constructed"
  /\ Cardinality(Reopened) < MaxReuse
  /\ \E h \in {self_input, self_output, self_handle} \ open :
       /\ ClosedByStop(h)
       /\ open' = open \cup {h}
       /\ calls' = Append(calls, Call("Open", <<h>>, TRUE, -1))
  /\ UNCHANGED <<launchvars, inheritable, childvars, stopvars, jsonvars>>

\* win32api.CloseHandle(h) on a value that names no open handle: the
\* platform reports an invalid handle and the pywin32 wrapper raises.
CloseInvalid(h, t) ==
  /\ h \notin open
  /\ calls' = Append(calls, Call("CloseHandle", <<h>>, FALSE, t))
  /\ sraised' = [sraised EXCEPT ![t] = PyWinError("CloseHandle")]
  /\ spc' = [spc EXCEPT ![t] = "raised"]
  /\ UNCHANGED <<launchvars, hvars, childvars, wait_saw_exit, jsonvars>>

StopCloseInputInvalid(t) ==
  /\ spc[t] = "close_input"
  /\ CloseInvalid(self_input, t)

StopCloseOutputInvalid(t) ==
  /\ spc[t] = "close_output"
  /\ CloseInvalid(self_output, t)

\* TerminateProcess on the closed process handle.
StopTerminateInvalid(t) ==
  /\ spc[t] = "terminate"
  /\ self_handle \notin open
  /\ calls' = Append(calls, Call("TerminateProcess", <<self_handle>>, FALSE, t))
  /\ sraised' = [sraised EXCEPT ![t] = PyWinError("TerminateProcess")]
  /\ spc' = [spc EXCEPT ![t] = "raised"]
  /\ UNCHANGED <<launchvars, hvars, childvars, wait_saw_exit, jsonvars>>

StopInvalid(t) ==
  \/ StopCloseInputInvalid(t)
  \/ StopCloseOutputInvalid(t)
  \/ StopTerminateInvalid(t)

\* ------------------------------------------------------ the output plugin
ROW_BATCH == 100

RowCounts ==
  (0..MaxSmall) \cup {k * ROW_BATCH + d : k \in 1..MaxBatches, d \in 0..1}

\* The (original type, exported type) pairs of the values a hunt yields.  The
\* caller hands each pair's exported values to the plugin in one call.
Pairs ==
  { <<"StatEntry", "ExportedFile">>,
    <<"StatEntry", "ExportedRegistryKey">>,
    <<"Process", "ExportedProcess">> }

\* The i-th exported value of a call.  Exported values carry their metadata,
\* so each one is truthy.
Values(exp, n) == [i \in 1..n |-> [cls |-> exp, id |-> i]]
NoValue == [cls |-> "", id |-> 0]
NoCall == [orig |-> "", exp |-> "", first |-> NoValue, rest |-> <<>>, counter |-> 0]

Token(t, id) == [t |-> t, id |-> id]

\* _SerializetoJson(value): the JSON text of one value.
Serialize(value) == Token("json", value.id)

\* os.path.splitext(self.output_file_name)[0]
path_prefix == "results"

\* "%s/%s/from_%s.json" % (path_prefix, exported type, original type)
FileName(exp, orig) == path_prefix \o "/" \o exp \o "/from_" \o orig \o ".json"

ManifestName == path_prefix \o "/MANIFEST"

\* What the archive generator is asked to write.
WriteFileHeader(name) == [ev |-> "header", name |-> name, data |-> <<>>]
WriteFileChunk(data) == [ev |-> "chunk", name |-> "", data |-> data]
WriteFileFooter == [ev |-> "footer", name |-> "", data |-> <<>>]
Close == [ev |-> "close", name |-> "", data |-> <<>>]

\* collection.Batch(exported_values, ROW_BATCH): the next batch holds the next
\* ROW_BATCH values, or all the remaining ones when fewer are left.
BatchSize(rest) == IF Len(rest) < ROW_BATCH THEN Len(rest) ELSE ROW_BATCH
NextBatch(rest) == SubSeq(rest, 1, BatchSize(rest))
AfterBatch(rest) == SubSeq(rest, BatchSize(rest) + 1, Len(rest))

\* A chunk that joins the values of the batch with commas.
BatchChunk_Join(batch) ==
  [i \in 1..(2 * Len(batch) - 1) |->
     IF i % 2 = 1 THEN Serialize(batch[(i + 1) \div 2]) ELSE Token(",", 0)]

\* for value in batch: buf.write(","); buf.write(_SerializetoJson(value))
BatchChunk(batch) ==
  [i \in 1..(2 * Len(batch)) |->
     IF i % 2 = 1 THEN Token(",", 0) ELSE Serialize(batch[i \div 2])]

CounterAfterBatch_One(counter, batch) == counter + 1

\* counter += len(batch)
CounterAfterBatch(counter, batch) == counter + Len(batch)

\* d.setdefault(k, dict())
SetDefault(d, k) == IF k \in DOMAIN d THEN d ELSE d @@ (k :> <<>>)
\* d[k] = v
Put(d, k, v) == [x \in DOMAIN d \cup {k} |-> IF x = k THEN v ELSE d[x]]

RECURSIVE SetToSeq(_)
SetToSeq(S) ==
  IF S = {} THEN <<>>
  ELSE LET x == CHOOSE y \in S : TRUE IN <<x>> \o SetToSeq(S \ {x})

RECURSIVE Flatten(_)
Flatten(ss) == IF ss = <<>> THEN <<>> ELSE Head(ss) \o Flatten(Tail(ss))

\* json.Dump of the manifest: tokens of the JSON text.  The order of an
\* object's members is not modelled (a JSON object is unordered).
MToken(t, k, n) == [t |-> t, k |-> k, n |-> n]
Punct(t) == MToken(t, "", 0)

\* The members of an object: each a key and the tokens of its value.
RECURSIVE Members(_)
Members(items) ==
  IF items = <<>> THEN <<>>
  ELSE <<MToken("key", Head(items).k, 0), Punct(":")>> \o Head(items).toks
         \o (IF Len(items) > 1 THEN <<Punct(",")>> ELSE <<>>)
         \o Members(Tail(items))

DumpObject(items) == <<Punct("{")>> \o Members(items) \o <<Punct("}")>>

DumpInner(d) ==
  LET keys == SetToSeq(DOMAIN d)
  IN  DumpObject([i \in 1..Len(keys) |->
                    [k |-> keys[i], toks |-> <<MToken("num", "", d[keys[i]])>>]])

DumpCounts(counts) ==
  LET keys == SetToSeq(DOMAIN counts)
  IN  DumpObject([i \in 1..Len(keys) |->
                    [k |-> keys[i], toks |-> DumpInner(counts[keys[i]])]])

\* json.Dump({"export_stats": self.export_counts})
DumpManifest(counts) ==
  <<Punct("{"), MToken("key", "export_stats", 0), Punct(":")>>
    \o DumpCounts(counts) \o <<Punct("}")>>

Start ==
  /\ jpc = "new"
  /\ export_counts' = <<>>
  /\ archive' = <<>>
  /\ jpc' = "ready"
  /\ UNCHANGED <<cur, manifest_bytes, given, procvars>>

\* ProcessSingleTypeExportedValues(original type, values): takes the first
\* value; returns without writing when there is none.
BeginValues ==
  /\ jpc = "ready"
  /\ \E p \in Pairs \ DOMAIN given, n \in RowCounts :
       LET values == Values(p[2], n)
       IN  /\ given' = given @@ (p :> n)
           /\ IF values = <<>>
              THEN /\ jpc' = "ready"
                   /\ UNCHANGED cur
              ELSE /\ cur' = [orig |-> p[1], exp |-> Head(values).cls,
                              first |-> Head(values), rest |-> Tail(values),
                              counter |-> 0]
                   /\ jpc' = "header"
  /\ UNCHANGED <<export_counts, archive, manifest_bytes, procvars>>

ValuesHeader ==
  /\ jpc = "header"
  /\ archive' = Append(archive, WriteFileHeader(FileName(cur.exp, cur.orig)))
  /\ jpc' = "open_bracket"
  /\ UNCHANGED <<export_counts, cur, manifest_bytes, given, procvars>>

ValuesOpenBracket ==
  /\ jpc = "open_bracket"
  /\ archive' = Append(archive, WriteFileChunk(<<Token("[", 0)>>))
  /\ jpc' = "first_value"
  /\ UNCHANGED <<export_counts, cur, manifest_bytes, given, procvars>>

ValuesFirst ==
  /\ jpc = "first_value"
  /\ archive' = Append(archive, WriteFileChunk(<<Serialize(cur.first)>>))
  /\ cur' = [cur EXCEPT !.counter = 1]
  /\ jpc' = "batches"
  /\ UNCHANGED <<export_counts, manifest_bytes, given, procvars>>

ValuesBatch ==
  /\ jpc = "batches"
  /\ cur.rest # <<>>
  /\ LET batch == NextBatch(cur.rest)
     IN  /\ cur' = [cur EXCEPT !.counter = CounterAfterBatch(cur.counter, batch),
                               !.rest = AfterBatch(cur.rest)]
         /\ archive' = Append(archive, WriteFileChunk(BatchChunk(batch)))
  /\ UNCHANGED <<jpc, export_counts, manifest_bytes, given, procvars>>

ValuesCloseBracket ==
  /\ jpc = "batches"
  /\ cur.rest = <<>>
  /\ archive' = Append(archive, WriteFileChunk(<<Token("]", 0)>>))
  /\ jpc' = "footer"
  /\ UNCHANGED <<export_counts, cur, manifest_bytes, given, procvars>>

\* ValuesFooter without the footer event.
ValuesFooter_Missing ==
  /\ jpc = "footer"
  /\ archive' = archive
  /\ jpc' = "count"
  /\ UNCHANGED <<export_counts, cur, manifest_bytes, given, procvars>>

ValuesFooter ==
  /\ jpc = "footer"
  /\ archive' = Append(archive, WriteFileFooter)
  /\ jpc' = "count"
  /\ UNCHANGED <<export_counts, cur, manifest_bytes, given, procvars>>

ValuesCount ==
  /\ jpc = "count"
  /\ export_counts' =
       LET d == SetDefault(export_counts, cur.orig)
       IN  [d EXCEPT ![cur.orig] = Put(d[cur.orig], cur.exp, cur.counter)]
  /\ cur' = NoCall
  /\ jpc' = "ready"
  /\ UNCHANGED <<archive, manifest_bytes, given, procvars>>

FinishHeader ==
  /\ jpc = "ready"
  /\ manifest_bytes' = DumpManifest(export_counts)
  /\ archive' = Append(archive, WriteFileHeader(ManifestName))
  /\ jpc' = "manifest_chunk"
  /\ UNCHANGED <<export_counts, cur, given, procvars>>

FinishChunk ==
  /\ jpc = "manifest_chunk"
  /\ archive' = Append(archive, WriteFileChunk(manifest_bytes))
  /\ jpc' = "manifest_footer"
  /\ UNCHANGED <<export_counts, cur, manifest_bytes, given, procvars>>

FinishFooter ==
  /\ jpc = "manifest_footer"
  /\ archive' = Append(archive, WriteFileFooter)
  /\ jpc' = "close"
  /\ UNCHANGED <<export_counts, cur, manifest_bytes, given, procvars>>

FinishClose ==
  /\ jpc = "close"
  /\ archive' = Append(archive, Close)
  /\ jpc' = "done"
  /\ UNCHANGED <<export_counts, cur, manifest_bytes, given, procvars>>

ProcessSingleTypeExportedValues ==
  \/ BeginValues
  \/ ValuesHeader
  \/ ValuesOpenBracket
  \/ ValuesFirst
  \/ ValuesBatch
  \/ ValuesCloseBracket
  \/ ValuesFooter
  \/ ValuesCount

Finish == FinishHeader \/ FinishChunk \/ FinishFooter \/ FinishClose

\* ------------------------------------------------------------- the child
\* The child runs concurrently with the parent: it may exit on its own at any
\* time, and a child whose termination was requested exits.
ChildExits ==
  /\ child \in {"running", "terminating"}
  /\ child' = "exited"
  /\ UNCHANGED <<pc, hvars, extra_handles, pipevars, selfvars, attrvars, cmdvars,
                 pi, child_handles, raised, calls, stopvars, jsonvars>>

InitProc ==
  /\ pc = "create_input_pipe"
  /\ open \in SUBSET Ambient
  /\ inheritable \in SUBSET open
  /\ extra_handles \in
       {[given |-> FALSE, list |-> <<>>]}
         \cup {[given |-> TRUE, list |-> s] : s \in SeqsUpTo(open, MaxExtra)}
  /\ remote_input = NoHandle /\ local_input = NoHandle
  /\ local_output = NoHandle /\ remote_output = NoHandle
  /\ self_input = NoHandle /\ self_output = NoHandle /\ self_handle = NoHandle
  /\ size = 0
  /\ attr_list = NoAttrList
  /\ handle_list = <<>>
  /\ command_line = <<>>
  /\ factory_calls = <<>>
  /\ pi = [hProcess |-> NoHandle, hThread |-> NoHandle]
  /\ child = "none"
  /\ child_handles = {}
  /\ raised = NoError
  /\ calls = <<>>
  /\ spc = [t \in Threads |-> "idle"]
  /\ sraised = [t \in Threads |-> NoError]
  /\ wait_saw_exit = [t \in Threads |-> FALSE]

InitJson ==
  /\ jpc = "new"
  /\ export_counts = <<>>
  /\ archive = <<>>
  /\ cur = NoCall
  /\ manifest_bytes = <<>>
  /\ given = <<>>

Init == InitProc /\ InitJson

\* One launch, then one caller stopping the instance once, with the child
\* running concurrently.
Next == Launch \/ ChildExits \/ Stop(1)

Spec == Init /\ [][Next]_vars

\* Stop past its entry: the statements of its body.
StopSteps(t) ==
  \/ StopCloseInput(t)
  \/ StopCloseOutput(t)
  \/ StopTerminate(t)
  \/ StopTerminateRejected(t)
  \/ StopWait(t)
  \/ StopCloseHandle(t)

\* A child whose termination was requested exits.
TerminatedChildExits == child = "terminating" /\ ChildExits

\* One launch and one Stop on a platform whose wait never fails, where a
\* started Stop keeps running and a terminated child eventually exits.
NextStopOnce == Launch \/ ChildExits \/ StopCall(1) \/ StopSteps(1)

SpecStopOnce ==
  /\ Init
  /\ [][NextStopOnce]_vars
  /\ WF_vars(StopSteps(1))
  /\ WF_vars(TerminatedChildExits)

\* A launch without ambient handles.
InitStops ==
  /\ Init
  /\ open = {}
  /\ ~extra_handles.given

\* The second, sequential call of Stop: it is entered once the first has
\* returned.  Every path through it ends at a handle the first call closed.
SecondStop ==
  \/ spc[1] = "returned" /\ StopCall(2)
  \/ StopCloseInput(2)
  \/ StopCloseOutput(2)
  \/ StopInvalid(2)

\* Launch, Stop, Stop.
NextDoubleStop == Launch \/ ChildExits \/ Stop(1) \/ OtherOpens \/ SecondStop

SpecDoubleStop == InitStops /\ [][NextDoubleStop]_vars

\* Two threads calling Stop on one instance; the interpreter may switch
\* threads between any two native calls.
NextRace ==
  \/ Launch
  \/ ChildExits
  \/ OtherOpens
  \/ \E t \in Threads : Stop(t) \/ StopInvalid(t)

SpecRace == InitStops /\ [][NextRace]_vars

\* The plugin alone: Start, one call per pair of types, Finish.
InitPlugin ==
  /\ InitProc
  /\ open = {}
  /\ ~extra_handles.given
  /\ InitJson

NextJson == Start \/ ProcessSingleTypeExportedValues \/ Finish

SpecJson == InitPlugin /\ [][NextJson]_vars
\* ================================================================ claims
NoStopYet == \A t \in Threads : spc[t] = "idle"

\* The handles this launch created.
LaunchHandles ==
  {remote_input, local_input, local_output, remote_output,
   pi.hProcess, pi.hThread} \ {NoHandle}

CallsOf(op) == {i \in 1..Len(calls) : calls[i].op = op}

\* The native calls of caller t, in order.
CallsBy(t) ==
  LET Mine(c) == c.by = t IN SelectSeq(calls, Mine)

IsPrefix(s, t) == Len(s) <= Len(t) /\ \A i \in 1..Len(s) : s[i] = t[i]

\* The two closes of the remote endpoints directly follow a successful
\* CreateProcessW.
RemoteClosedFirst ==
  \A i \in CallsOf("CreateProcessW") :
    calls[i].ok =>
      /\ Len(calls) >= i + 1 =>
           calls[i + 1] = Call("CloseHandle", <<remote_input>>, TRUE, 0)
      /\ Len(calls) >= i + 2 =>
           calls[i + 2] = Call("CloseHandle", <<remote_output>>, TRUE, 0)

\* C1 as stated: after a successful construction the handles of the launch
\* that are still open are exactly the two local pipe endpoints.
C1_Original ==
  (pc = "constructed" /\ NoStopYet) =>
    LaunchHandles \cap open = {local_input, local_output}

\* C1, amended: after a successful construction the handles of the launch that
\* are still open are exactly the three the record owns: the two local pipe
\* endpoints (input is the write end of the input pipe, output the read end
\* of the output pipe) and the process handle.  Both remote endpoints and the
\* thread handle are closed, and the closes of the remote endpoints are the
\* first native calls after the successful CreateProcessW.
C1_OwnedHandles ==
  /\ RemoteClosedFirst
  /\ (pc = "constructed" /\ NoStopYet) =>
       /\ LaunchHandles \cap open = {self_input, self_output, self_handle}
       /\ Cardinality({self_input, self_output, self_handle}) = 3
       /\ self_input = local_input
       /\ self_output = local_output
       /\ self_handle = pi.hProcess
       /\ remote_input \notin open
       /\ remote_output \notin open
       /\ \E i \in CallsOf("CreateProcessW") : calls[i].ok /\ Len(calls) >= i + 2

C1_Witness ==
  /\ pc = "constructed"
  /\ NoStopYet
  /\ Len(ExtrasOrEmpty(extra_handles)) = 2
  /\ open \cap Ambient # {}

\* C2 as stated: the child of a successful launch inherits exactly the
\* whitelist of 2 + len(extra_handles) handles, and neither local endpoint.
C2_ChildInheritsWhitelistOnly ==
  child # "none" =>
    /\ child_handles = Range(handle_list)
    /\ Len(handle_list) = 2 + Len(ExtrasOrEmpty(extra_handles))
    /\ local_input \notin child_handles
    /\ local_output \notin child_handles

\* C3 as stated: the whitelist is [output child end, input child end] followed
\* by the extra handles.
C3_Original ==
  handle_list # <<>> =>
    handle_list = <<remote_output, remote_input>> \o ExtrasOrEmpty(extra_handles)

\* C3, amended: the whitelist is [input child end, output child end] followed
\* by the caller's extra handles in their order (none when the list is empty
\* or omitted); the input child end is the read end of the first pipe and the
\* output child end the write end of the second; this is the list handed to
\* UpdateProcThreadAttribute.
C3_WhitelistOrder ==
  handle_list # <<>> =>
    LET pipes == CallsOf("CreatePipe")
        first == Min(pipes)
        second == Min(pipes \ {first})
        extras == IF extra_handles.given THEN extra_handles.list ELSE <<>>
    IN  /\ Cardinality(pipes) = 2
        /\ Len(handle_list) = 2 + Len(extras)
        /\ handle_list[1] = calls[first].args[1]
        /\ handle_list[2] = calls[second].args[2]
        /\ \A i \in 1..Len(extras) : handle_list[2 + i] = extras[i]
        /\ \A i \in CallsOf("UpdateProcThreadAttribute") :
             calls[i].args = handle_list
        /\ attr_list.state \in {"populated", "deleted"} =>
             attr_list.handles = handle_list

C3_Witness ==
  /\ attr_list.state = "populated"
  /\ extra_handles.given
  /\ Len(extra_handles.list) = 2
  /\ extra_handles.list[1] # extra_handles.list[2]

C3_WitnessOmitted ==
  /\ attr_list.state = "populated"
  /\ ~extra_handles.given

LaunchOver == pc \in {"constructed", "failed"}

\* C4 as stated: the factory is invoked exactly once per launch.
C4_Original == LaunchOver => Len(factory_calls) = 1

ReachedCreateProcess ==
  \/ pc \in {"create_process", "close_remote_input", "close_remote_output",
             "set_handle", "close_thread", "constructed"}
  \/ pc = "failed" /\ raised = Error("CreateProcessW failed.")

\* C4, amended: the factory is invoked at most once per launch: exactly once
\* in a launch that reaches the process-creation call and never in a launch
\* that fails before it.  It receives (read end of the pipe whose write end is
\* `input`, write end of the pipe whose read end is `output`); both are in the
\* whitelist and open in the parent when it runs.
C4_FactoryCall ==
  /\ Len(factory_calls) = (IF ReachedCreateProcess THEN 1 ELSE 0)
  /\ CallsOf("CreateProcessW") # {} => Len(factory_calls) = 1
  /\ \A k \in 1..Len(factory_calls) :
       LET f == factory_calls[k]
           pipes == CallsOf("CreatePipe")
           first == Min(pipes)
           second == Min(pipes \ {first})
       IN  /\ Len(f.args) = 2
           /\ f.args[1] = calls[first].args[1]
           /\ self_input = calls[first].args[2]
           /\ self_output = calls[second].args[1]
           /\ f.args[2] = calls[second].args[2]
           /\ {f.args[1], f.args[2]} \subseteq Range(f.whitelist)
           /\ {f.args[1], f.args[2]} \subseteq f.open_then
           /\ command_line = f.args

C4_Witness ==
  /\ pc = "constructed"
  /\ Len(factory_calls) = 1
  /\ remote_input > local_input

\* What Stop does, in order.
StopSequence ==
  << [op |-> "CloseHandle", args |-> <<self_input>>],
     [op |-> "CloseHandle", args |-> <<self_output>>],
     [op |-> "TerminateProcess", args |-> <<self_handle>>],
     [op |-> "WaitForSingleObject", args |-> <<self_handle>>],
     [op |-> "CloseHandle", args |-> <<self_handle>> ] >>

StopDone(t) ==
  LET mine == CallsBy(t)
  IN  [i \in 1..Len(mine) |-> [op |-> mine[i].op, args |-> mine[i].args]]

\* C5: Stop closes the local input endpoint, the local output endpoint,
\* requests termination, waits, and closes the process handle, in this order
\* (a call that fails is the last one); the process handle is closed only
\* after the wait returned because the child had exited, so the child is
\* exited whenever Stop has returned.
C5_StopOrder ==
  LET mine == CallsBy(1)
  IN  /\ IsPrefix(StopDone(1), StopSequence)
      /\ \A i \in 1..Len(mine) : ~mine[i].ok => i = Len(mine)
      /\ Len(mine) = 5 =>
           /\ mine[4].ok
           /\ wait_saw_exit[1]
           /\ child = "exited"
      /\ spc[1] = "returned" =>
           /\ Len(mine) = 5
           /\ child = "exited"
           /\ self_handle \notin open
      /\ (spc[1] # "idle" /\ self_handle \notin open) => Len(mine) = 5

C5_Witness ==
  /\ spc[1] = "returned"
  /\ \E i \in CallsOf("TerminateProcess") : calls[i].ok

PipeFailed == \E i \in CallsOf("CreatePipe") : ~calls[i].ok

\* C6: when the creation of either pipe fails, the launch raises Error and
\* CreateProcessW is never called in it: no process exists.
C6_PipeFailure ==
  PipeFailed =>
    /\ pc = "failed"
    /\ raised = Error("CreatePipe failed.")
    /\ CallsOf("CreateProcessW") = {}
    /\ ~calls[Len(calls)].ok
    /\ calls[Len(calls)].op = "CreatePipe"
    /\ child = "none"
    /\ pi.hProcess = NoHandle
    /\ self_handle = NoHandle

C6_Witness ==
  /\ PipeFailed
  /\ Cardinality(CallsOf("CreatePipe")) = 2

C6_WitnessFirst ==
  /\ PipeFailed
  /\ Cardinality(CallsOf("CreatePipe")) = 1

ProcessCreationFailed == \E i \in CallsOf("CreateProcessW") : ~calls[i].ok

\* C7: when CreateProcessW fails, the launch raises Error, no record holds a
\* process, and nothing is closed: the four pipe endpoints stay open in the
\* parent and no CloseHandle is called.
C7_CreateProcessFailure ==
  ProcessCreationFailed =>
    /\ pc = "failed"
    /\ raised = Error("CreateProcessW failed.")
    /\ self_handle = NoHandle
    /\ child = "none"
    /\ Cardinality({remote_input, local_input, local_output, remote_output}) = 4
    /\ {remote_input, local_input, local_output, remote_output} \subseteq open
    /\ CallsOf("CloseHandle") = {}
    /\ NoStopYet

C7_Witness ==
  /\ ProcessCreationFailed
  /\ Len(handle_list) = 4

\* C8 as stated: whatever fails in Stop, the error that escapes is Error: for
\* a failed wait and for a failed termination request alike.
C8_StopRaisesOnlyError ==
  \A t \in Threads :
    /\ spc[t] = "raised" => sraised[t].kind = "Error"
    /\ (\E i \in CallsOf("TerminateProcess") : calls[i].by = t /\ ~calls[i].ok)
         => spc[t] = "raised" /\ sraised[t].kind = "Error"
\* --------------------------------------------------- reading the archive
HeaderIdx(name) ==
  {i \in 1..Len(archive) : archive[i].ev = "header" /\ archive[i].name = name}

FooterAfter(h) == {i \in (h + 1)..Len(archive) : archive[i].ev = "footer"}

FileComplete(name) == \E h \in HeaderIdx(name) : FooterAfter(h) # {}

\* The bytes of the archive's file `name`: its chunks, concatenated.
FileContent(name) ==
  LET h == Min(HeaderIdx(name))
      f == Min(FooterAfter(h))
  IN  Flatten([i \in 1..(f - h - 1) |-> archive[h + i].data])

\* '[' value (',' value)* ']'
WellFormedArray(c) ==
  /\ Len(c) >= 3
  /\ Len(c) % 2 = 1
  /\ c[1] = Token("[", 0)
  /\ c[Len(c)] = Token("]", 0)
  /\ \A i \in 2..(Len(c) - 1) :
       IF i % 2 = 0 THEN c[i].t = "json" ELSE c[i] = Token(",", 0)

\* The elements of a well-formed array, in order.
Elements(c) == [i \in 1..((Len(c) - 1) \div 2) |-> c[2 * i]]

\* The (original, exported, count) entries of a manifest's export_stats.
RECURSIVE ScanManifest(_, _, _, _, _)
ScanManifest(toks, i, depth, orig, acc) ==
  IF i > Len(toks) THEN acc
  ELSE LET tok == toks[i]
       IN  CASE tok.t = "{" -> ScanManifest(toks, i + 1, depth + 1, orig, acc)
             [] tok.t = "}" -> ScanManifest(toks, i + 1, depth - 1, orig, acc)
             [] tok.t = "key" /\ depth = 2 ->
                  ScanManifest(toks, i + 1, depth, tok.k, acc)
             [] tok.t = "key" /\ depth = 3 ->
                  ScanManifest(toks, i + 3, depth, orig,
                               acc \cup {<<orig, tok.k, toks[i + 2].n>>})
             [] OTHER -> ScanManifest(toks, i + 1, depth, orig, acc)

ExportStats(toks) ==
  IF Len(toks) >= 2 /\ toks[2] = MToken("key", "export_stats", 0)
  THEN ScanManifest(toks, 1, 0, "", {})
  ELSE {}

PairFile(p) == FileName(p[2], p[1])

WrittenPairs == {p \in Pairs : HeaderIdx(PairFile(p)) # {}}

\* C9: a call with n >= 1 values writes one file whose content is '[', the
\* first value, each later value preceded by one ',', and ']': a well-formed
\* array of the n values in input order, whatever n is relative to ROW_BATCH.
C9_JsonArray ==
  \A p \in DOMAIN given :
    /\ Cardinality(HeaderIdx(PairFile(p))) <= 1
    /\ (given[p] >= 1 /\ FileComplete(PairFile(p))) =>
         LET c == FileContent(PairFile(p))
             values == Values(p[2], given[p])
         IN  /\ WellFormedArray(c)
             /\ Len(Elements(c)) = given[p]
             /\ Elements(c) = [i \in 1..given[p] |-> Serialize(values[i])]

C9_Witness ==
  \E p \in DOMAIN given :
    /\ given[p] = 2 * ROW_BATCH + 1
    /\ FileComplete(PairFile(p))
    /\ \E q \in DOMAIN given :
         given[q] = ROW_BATCH + 1 /\ FileComplete(PairFile(q))

\* C10: once Finish is done, the MANIFEST's export_stats holds, for each file
\* written, original type -> exported type -> the number of elements of that
\* file's array, and holds nothing else.
C10_ManifestCounts ==
  jpc = "done" =>
    /\ FileComplete(ManifestName)
    /\ ExportStats(FileContent(ManifestName))
         = { <<p[1], p[2], Len(Elements(FileContent(PairFile(p))))>> :
               p \in WrittenPairs }
    /\ \A p \in WrittenPairs : FileComplete(PairFile(p))

C10_Witness ==
  /\ jpc = "done"
  /\ Cardinality(WrittenPairs) = 2
  /\ \E p \in WrittenPairs : given[p] = 2 * ROW_BATCH
  /\ \E p \in WrittenPairs : given[p] = 1
  /\ \E p \in DOMAIN given : given[p] = 0
  /\ \A p \in WrittenPairs : p[1] = "StatEntry"

\* The positions of the archive events of kind ev.
EventsOf(ev) == {i \in 1..Len(archive) : archive[i].ev = ev}

\* header (chunk)* footer, repeated, and Close only after a footer or first:
\* no header inside a file, no chunk or footer outside one.
WellFramed ==
  \A i \in 1..Len(archive) :
    LET e == archive[i].ev
        before == IF i = 1 THEN "none" ELSE archive[i - 1].ev
    IN  CASE e = "header" -> before \in {"none", "footer"}
          [] e = "chunk" -> before \in {"header", "chunk"}
          [] e = "footer" -> before \in {"header", "chunk"}
          [] e = "close" -> before \in {"none", "footer"} /\ i = Len(archive)

\* The names of the archive's entries.
Entries == {archive[i].name : i \in EventsOf("header")}

\* The calls that were given at least one value and have written their file.
FilesDue ==
  {PairFile(p) : p \in {q \in DOMAIN given :
                          given[q] >= 1 /\ (cur = NoCall \/ cur.exp # q[2]
                                            \/ cur.orig # q[1])}}

C12_StopCompletes ==
  /\ (spc[1] = "close_input" /\ child = "running")
       ~> (spc[1] = "returned" /\ self_handle \notin open)
  /\ [](spc[1] \in {"close_input", "close_output", "terminate", "close_handle"}
          => ENABLED StopSteps(1))

\* C13: when CreateProcessW is invoked the attribute list has been
\* size-queried, initialized and populated and has not been deleted: the
\* launch is about to create the process only with a populated list, and in
\* the call log the three building calls, and no
\* DeleteProcThreadAttributeList, precede every CreateProcessW.
C13_AttrListLiveAtCreate ==
  /\ pc = "create_process" => attr_list.state = "populated"
  /\ \A i \in CallsOf("CreateProcessW") :
       /\ \E q \in CallsOf("InitializeProcThreadAttributeList:size") : q < i
       /\ \E n \in CallsOf("InitializeProcThreadAttributeList") :
            n < i /\ calls[n].ok
       /\ \E u \in CallsOf("UpdateProcThreadAttribute") : u < i /\ calls[u].ok
       /\ \A d \in CallsOf("DeleteProcThreadAttributeList") : d > i

NoProcessCreation == CallsOf("CreateProcessW") = {} /\ child = "none"

BuilderRaised(m) ==
  /\ pc = "failed"
  /\ raised = Error(m)
  /\ NoProcessCreation

\* C14: a failed step of the whitelist builder ends the launch with Error
\* naming the failing call and without a process creation: a failed size
\* query leaves size 0, on which the initialization fails and raises; a
\* failed initialization and a failed UpdateProcThreadAttribute raise at
\* once.  The list is initialized and populated only after the size query,
\* in a buffer of exactly the reported size.
C14_BuilderFailures ==
  /\ \A q \in CallsOf("InitializeProcThreadAttributeList:size") :
       ~calls[q].ok =>
         /\ pc \in {"alloc_buffer", "init_attr_list", "failed"}
         /\ pc = "failed" =>
              BuilderRaised("InitializeProcThreadAttributeList failed.")
         /\ NoProcessCreation
  /\ \A n \in CallsOf("InitializeProcThreadAttributeList") :
       ~calls[n].ok =>
         BuilderRaised("InitializeProcThreadAttributeList failed.")
  /\ \A u \in CallsOf("UpdateProcThreadAttribute") :
       ~calls[u].ok => BuilderRaised("UpdateProcThreadAttribute failed.")
  /\ attr_list.state # "none" =>
       /\ attr_list.cap = size
       /\ CallsOf("InitializeProcThreadAttributeList:size") # {}
  /\ attr_list.state \in {"initialized", "populated", "deleted"} =>
       /\ size = AttrListBytes
       /\ \E q \in CallsOf("InitializeProcThreadAttributeList:size") :
            /\ calls[q].ok
            /\ \A n \in CallsOf("InitializeProcThreadAttributeList")
                          \cup CallsOf("UpdateProcThreadAttribute") : q < n

C14_Witness ==
  /\ size = 0
  /\ attr_list.cap = 0
  /\ BuilderRaised("InitializeProcThreadAttributeList failed.")
  /\ local_input \in open

\* The successful CloseHandle calls on handle h.
ClosesOf(h) ==
  {i \in CallsOf("CloseHandle") : calls[i].ok /\ calls[i].args = <<h>>}

\* The handles the instance keeps: the two local endpoints and the process
\* handle.
KeptHandles == {local_input, local_output, pi.hProcess} \ {NoHandle}

\* C15: a constructed instance has the thread handle closed and holds the
\* process handle; each kept handle (process handle, local endpoints) is open
\* in every state until a CloseHandle of Stop closes it, and every close of a
\* kept handle is issued by Stop.
C15_ProcessHandleRetained ==
  /\ pc = "constructed" =>
       /\ pi.hThread \notin open
       /\ self_handle = pi.hProcess
       /\ self_handle # NoHandle
       /\ self_handle # pi.hThread
  /\ \A h \in KeptHandles :
       /\ \A i \in ClosesOf(h) : calls[i].by \in Threads
       /\ ClosesOf(h) = {} => h \in open
  /\ (pc = "constructed" /\ \A t \in Threads : spc[t] # "returned") =>
       self_handle \in open

C15_Witness ==
  /\ pc = "constructed"
  /\ spc[1] = "close_handle"
  /\ child = "exited"
  /\ self_handle \in open
  /\ ClosesOf(local_input) # {}
  /\ ClosesOf(pi.hThread) # {}

\* The position in the call log of the first native call of caller t.
FirstCallBy(t) == {i \in 1..Len(calls) :
                     calls[i].by = t /\ \A j \in 1..(i - 1) : calls[j].by # t}

\* C16: Stop has no stopped-state guard.  After the first Stop has returned a
\* second call is accepted, and its first native call is CloseHandle on
\* self.input, a handle the first Stop has already closed: a double close.
C16_DoubleClose ==
  /\ (spc[1] = "returned" /\ spc[2] = "idle") => ENABLED StopCall(2)
  /\ spc[2] # "idle" => spc[1] = "returned"
  /\ spc[2] \notin {"idle", "close_input"} => FirstCallBy(2) # {}
  /\ \A i \in FirstCallBy(2) :
       /\ calls[i].op = "CloseHandle"
       /\ calls[i].args = <<self_input>>
       /\ \E j \in 1..(i - 1) :
            calls[j] = Call("CloseHandle", <<self_input>>, TRUE, 1)

\* Launch, Stop, Stop: the second Stop has passed the closed handle to
\* CloseHandle and the platform has rejected it.
C16_Witness ==
  /\ spc[1] = "returned"
  /\ spc[2] = "raised"
  /\ \E i \in FirstCallBy(2) :
       calls[i] = Call("CloseHandle", <<self_input>>, FALSE, 2)
  /\ Reopened = {}

\* C17: Stop takes no lock.  A thread may enter Stop whatever the other
\* thread is doing, and inside Stop no statement but the wait ever waits:
\* the threads' handle operations interleave freely on the same handle
\* values.
C17_NoLocking ==
  \A t \in Threads :
    /\ (pc = "constructed" /\ spc[t] = "idle") => ENABLED StopCall(t)
    /\ spc[t] \in {"close_input", "close_output", "terminate", "close_handle"}
         => ENABLED (StopSteps(t) \/ StopInvalid(t))

\* Both threads are inside Stop and both have passed self.input to
\* CloseHandle: the first close succeeded, the second hit the closed handle.
C17_Witness ==
  /\ spc[1] = "wait"
  /\ spc[2] = "raised"
  /\ \E i, j \in CallsOf("CloseHandle") :
       /\ i < j
       /\ calls[i] = Call("CloseHandle", <<self_input>>, TRUE, 1)
       /\ calls[j] = Call("CloseHandle", <<self_input>>, FALSE, 2)
  /\ Reopened = {}

\* One thread has closed the process handle and returned; the other, which
\* got past its two closes on reused handle values, passes the closed process
\* handle to TerminateProcess.
C17_WitnessStaleTerminate ==
  \E t, u \in Threads :
    /\ t # u
    /\ spc[t] = "returned"
    /\ spc[u] = "raised"
    /\ \E i, j \in 1..Len(calls) :
         /\ i < j
         /\ calls[i] = Call("CloseHandle", <<self_handle>>, TRUE, t)
         /\ calls[j] = Call("TerminateProcess", <<self_handle>>, FALSE, u)

\* C18: on a platform whose wait does not fail, Stop never ends by raising,
\* whenever the child exits: once the termination request has been issued,
\* accepted or rejected, Stop is at the wait or beyond it, and a Stop that
\* has ended has closed the process handle.
C18_StopReleasesHandle ==
  /\ spc[1] # "raised"
  /\ \A i \in CallsOf("TerminateProcess") :
       calls[i].by = 1 => spc[1] \in {"wait", "close_handle", "returned"}
  /\ spc[1] = "returned" => self_handle \notin open

\* C19: a launch that failed after the first pipe was created has none of
\* its pipe handles open in the parent.
C19_FailedLaunchClosesPipes ==
  pc = "failed" =>
    {remote_input, local_input, local_output, remote_output} \cap open = {}

\* The failed waits in the call log.
FailedWaits == {i \in CallsOf("WaitForSingleObject") : ~calls[i].ok}

\* C20: when Stop has raised because the wait failed, the two local
\* endpoints are closed, the termination request was sent before the wait,
\* and the process handle is still open.
C20_WaitFailureLeavesHandle ==
  \A i \in FailedWaits :
    LET t == calls[i].by
    IN  /\ spc[t] = "raised"
        /\ sraised[t] \in WaitFailureErrors
        /\ i = Len(calls)
        /\ self_input \notin open
        /\ self_output \notin open
        /\ \E j \in 1..(i - 1) :
             calls[j] = Call("TerminateProcess", <<self_handle>>, TRUE, t)
        /\ self_handle \in open
        /\ ClosesOf(self_handle) = {}

C20_Witness ==
  /\ FailedWaits # {}
  /\ spc[1] = "raised"
  /\ sraised[1] = Error("WaitForSingleObject failed.")
  /\ child = "terminating"
  /\ self_handle \in open
====
